---- MODULE Spec2Model ----
(***************************************************************************)
(* Model of the android-ota-patcher scripts:                               *)
(*   - scrape_ota_selenium.py : driver setup, browser launch, navigation,  *)
(*     consent button, anchor -> table -> rows -> link extraction, and the *)
(*     URL print / streamed download;                                      *)
(*   - get_devices.py : the device list reporter.                          *)
(* Text is modelled as sequences of one-character strings so that the      *)
(* substring, suffix and basename computations are really computed.        *)
(***************************************************************************)
EXTENDS Integers, Sequences, FiniteSets, TLC

VARIABLES
    (* ---- scrape_ota_selenium.py: command line (main) ---- *)
    debug,              \* --debug
    silent,             \* --silent
    no_download,        \* --no-download
    chrome_binary_path, \* TRUE iff --chrome-binary was given
    (* ---- process ---- *)
    pc,                 \* position in get_latest_ota_zip and its callees
    out,                \* what the script's print calls have written, in order
    exitStatus,         \* -1 while running, else the process exit status
    traceback,          \* TRUE iff the interpreter reported an uncaught exception
    (* ---- setup_chrome_driver ---- *)
    consulted,          \* driver sources tried so far, in order: [source, yielded]
    service,            \* the source whose driver became the Service, or "none"
    (* ---- browser session ---- *)
    driver,             \* [state, quits, launches, misuse]
    ackClicked,         \* the acknowledge button was clicked
    (* ---- _extract_latest_ota_url ---- *)
    anchor,             \* "unset" | "found" | "absent"
    table,              \* "unset" | "div" | "sibling" | "absent"
    tbody,              \* "unset" | "read" | "unreadable"
    rows,               \* the <tr> rows read: each the hrefs of its links
    link_elem,          \* <<row index, link index>> of the chosen <a>, or <<0, 0>>
    ota_url,            \* the href extracted, or <<>>
    (* ---- _download_ota_file ---- *)
    downloadCalls,      \* calls of _download_ota_file
    httpGets,           \* requests.get calls for the package
    file,               \* [opened, closed, name, content] of the local file
    body,               \* chunks of the response body received so far, in order
    (* ---- get_devices.py ---- *)
    field,              \* args.field: [given, name], given = FALSE when --field is absent
    devices,            \* data.get('devices', [])
    rpc,                \* "loop" | "done"
    ridx,               \* number of records the for loop has handled
    rout                \* lines printed by the reporter

scraper_vars == <<debug, silent, no_download, chrome_binary_path, pc, out,
                  exitStatus, traceback, consulted, service, driver, ackClicked,
                  anchor, table, tbody, rows, link_elem, ota_url,
                  downloadCalls, httpGets, file, body>>
reporter_vars == <<field, devices, rpc, ridx, rout>>
vars == <<scraper_vars, reporter_vars>>

(***************************************************************************)
(* Bounds                                                                  *)
(***************************************************************************)
MaxRows == 2      \* rows in the OTA table body
MaxChunks == 2    \* chunks of the response body
MaxDevices == 2   \* records in devices.yaml

(***************************************************************************)
(* Text helpers                                                            *)
(***************************************************************************)
\* Python `sub in s` / XPath contains(s, sub)
Contains(s, sub) ==
    \E i \in 1..(Len(s) - Len(sub) + 1) : SubSeq(s, i, i + Len(sub) - 1) = sub

EndsWith(s, suf) ==
    /\ Len(s) >= Len(suf)
    /\ SubSeq(s, Len(s) - Len(suf) + 1, Len(s)) = suf

\* position of the last occurrence of character c in s, 0 if none
LastIndexOf(s, c) ==
    IF \E i \in 1..Len(s) : s[i] = c
    THEN CHOOSE i \in 1..Len(s) : s[i] = c /\ \A j \in (i+1)..Len(s) : s[j] # c
    ELSE 0

\* position of the first character of s that is in set cs, Len(s)+1 if none
FirstIndexIn(s, cs) ==
    IF \E i \in 1..Len(s) : s[i] \in cs
    THEN CHOOSE i \in 1..Len(s) : s[i] \in cs /\ \A j \in 1..(i-1) : s[j] \notin cs
    ELSE Len(s) + 1

\* os.path.basename(p): everything after the last "/"
Basename(p) == SubSeq(p, LastIndexOf(p, "/") + 1, Len(p))

RECURSIVE Flatten(_)
Flatten(ss) == IF ss = <<>> THEN <<>> ELSE Head(ss) \o Flatten(Tail(ss))

SeqsUpTo(S, n) == UNION { [1..k -> S] : k \in 0..n }

(***************************************************************************)
(* Page content the scraper may meet                                       *)
(***************************************************************************)
DotZip == <<".", "z", "i", "p">>
HrefA == <<"h", "/", "a", ".", "z", "i", "p">>            \* h/a.zip
HrefB == <<"h", "/", "b", ".", "z", "i", "p">>            \* h/b.zip
HrefQ == <<"h", "/", "a", ".", "z", "i", "p", "?", "y">>  \* h/a.zip?y
HrefT == <<"h", "/", "a", ".", "t", "x", "t">>            \* h/a.txt

\* a row is the sequence of the hrefs of its <a> elements, in document order
SampleRows == { <<>>, <<HrefT>>, <<HrefA>>, <<HrefT, HrefB>>, <<HrefQ>>,
                <<HrefQ, HrefA>>, <<HrefB, HrefA>> }

Chunks == { <<>>, <<0>>, <<1, 0>> }

(***************************************************************************)
(* Output                                                                  *)
(***************************************************************************)
\* one print call: the message's kind and the URL text it carries (if any)
Msg(kind) == [kind |-> kind, text |-> <<>>]
UrlMsg(kind, url) == [kind |-> kind, text |-> url]

\* messages that report a failure
FailureKinds == { "setup_failed", "launch_failed", "navigation_error",
                  "anchor_missing", "table_missing", "tbody_missing",
                  "no_rows", "no_zip_link", "download_failed" }

\* def log(msg): if debug and not silent: print(msg)
LogDebugOnly(o, m) == IF debug THEN Append(o, m) ELSE o
Log(o, m) == IF debug /\ ~silent THEN Append(o, m) ELSE o

\* `if not silent: log(msg)`
QuietLog(o, m) == IF ~silent THEN Log(o, m) ELSE o

\* `if debug and not silent: print(msg)`
DebugPrint(o, m) == IF debug /\ ~silent THEN Append(o, m) ELSE o

\* `if not silent: print(msg)`
Say(o, m) == IF ~silent THEN Append(o, m) ELSE o

\* main: download=not args.no_download
downloadInverted == no_download
download == ~no_download

\* sys.exit(1)
FatalStatus == 1

(***************************************************************************)
(* Browser session                                                         *)
(***************************************************************************)
NoDriver == [state |-> "none", quits |-> 0, launches |-> 0, misuse |-> FALSE]

\* webdriver.Chrome(service=..., options=...) returned a session
DriverLaunch(d) == [d EXCEPT !.state = "live", !.launches = @ + 1]

\* any use of the session (get, current_url, find_element, execute_script...)
DriverUse(d) == [d EXCEPT !.misuse = @ \/ d.state # "live"]

\* driver.quit()
DriverQuitForgotten(d) == d
DriverQuit(d) == [d EXCEPT !.state = "quit", !.quits = @ + 1,
                           !.misuse = @ \/ d.state # "live"]

NoFile == [opened |-> FALSE, closed |-> FALSE, name |-> <<>>, content |-> <<>>]

(***************************************************************************)
(* Initial states                                                          *)
(***************************************************************************)
ScraperIdle ==
    /\ pc = "start"
    /\ out = <<>>
    /\ exitStatus = -1
    /\ traceback = FALSE
    /\ consulted = <<>>
    /\ service = "none"
    /\ driver = NoDriver
    /\ ackClicked = FALSE
    /\ anchor = "unset"
    /\ table = "unset"
    /\ tbody = "unset"
    /\ rows = <<>>
    /\ link_elem = <<0, 0>>
    /\ ota_url = <<>>
    /\ downloadCalls = 0
    /\ httpGets = 0
    /\ file = NoFile
    /\ body = <<>>

ReporterIdle ==
    /\ field = [given |-> FALSE, name |-> ""]
    /\ devices = <<>>
    /\ rpc = "done"
    /\ ridx = 0
    /\ rout = <<>>

Init ==
    /\ debug \in BOOLEAN
    /\ silent \in BOOLEAN
    /\ no_download \in BOOLEAN
    /\ chrome_binary_path \in BOOLEAN
    /\ ScraperIdle
    /\ ReporterIdle

(***************************************************************************)
(* get_latest_ota_zip: start and driver setup                              *)
(***************************************************************************)
flags == <<debug, silent, no_download, chrome_binary_path>>
extract_vars == <<anchor, table, tbody, rows, link_elem, ota_url>>
download_vars == <<downloadCalls, httpGets, file, body>>
setup_vars == <<consulted, service>>

\* uncaught exception: the interpreter writes a traceback and exits with 1
Crash ==
    /\ pc' = "crash"
    /\ traceback' = TRUE
    /\ exitStatus' = 1

\* sys.exit(1)
Exit1 ==
    /\ pc' = "exit"
    /\ exitStatus' = FatalStatus
    /\ UNCHANGED traceback

Start ==
    /\ pc = "start"
    /\ out' = QuietLog(out, Msg("launching"))
    /\ pc' = "setup"
    /\ UNCHANGED <<flags, exitStatus, traceback, setup_vars, driver, ackClicked,
                   extract_vars, download_vars, reporter_vars>>

\* one driver source and whether it yielded a driver
Tried(source, yielded) == [source |-> source, yielded |-> yielded]

\* os.path.exists("/usr/bin/chromedriver")
CheckSystemDriver ==
    /\ pc = "setup"
    /\ \E exists \in BOOLEAN :
        /\ consulted' = Append(consulted, Tried("system", exists))
        /\ IF exists
           THEN /\ out' = Log(out, Msg("using_system_driver"))
                /\ service' = "system"
                /\ pc' = "launch"
           ELSE /\ out' = out
                /\ service' = service
                /\ pc' = IF chrome_binary_path THEN "probe" ELSE "wdm_default"
    /\ UNCHANGED <<flags, exitStatus, traceback, driver, ackClicked,
                   extract_vars, download_vars, reporter_vars>>

\* subprocess.run([chrome_binary_path, '--version']) and the version regex;
\* an exception here abandons webdriver-manager for the except branch
ProbeChromeVersion ==
    /\ pc = "probe"
    /\ \E outcome \in {"raise", "nonzero", "nomatch", "match"} :
        CASE outcome = "raise" ->
                /\ out' = out
                /\ consulted' = Append(consulted, Tried("wdm", FALSE))
                /\ pc' = "path_fallback"
          [] outcome = "nonzero" ->
                /\ out' = out
                /\ consulted' = consulted
                /\ pc' = "wdm_default"
          [] outcome = "nomatch" ->
                /\ out' = Log(out, Msg("chrome_version"))
                /\ consulted' = consulted
                /\ pc' = "wdm_default"
          [] outcome = "match" ->
                /\ out' = Log(Log(out, Msg("chrome_version")), Msg("chrome_major"))
                /\ consulted' = consulted
                /\ pc' = "wdm_versioned"
    /\ UNCHANGED <<flags, exitStatus, traceback, service, driver, ackClicked,
                   extract_vars, download_vars, reporter_vars>>

\* ChromeDriverManager(chrome_type=..., driver_version=...).install()
InstallVersionedDriver ==
    /\ pc = "wdm_versioned"
    /\ \E ok \in BOOLEAN :
        /\ consulted' = Append(consulted, Tried("wdm", ok))
        /\ IF ok THEN service' = "wdm" /\ pc' = "launch"
                 ELSE service' = service /\ pc' = "path_fallback"
    /\ UNCHANGED <<flags, out, exitStatus, traceback, driver, ackClicked,
                   extract_vars, download_vars, reporter_vars>>

\* ChromeDriverManager().install()
InstallDefaultDriver ==
    /\ pc = "wdm_default"
    /\ \E ok \in BOOLEAN :
        /\ consulted' = Append(consulted, Tried("wdm", ok))
        /\ IF ok THEN service' = "wdm" /\ pc' = "launch"
                 ELSE service' = service /\ pc' = "path_fallback"
    /\ UNCHANGED <<flags, out, exitStatus, traceback, driver, ackClicked,
                   extract_vars, download_vars, reporter_vars>>

\* except Exception: shutil.which('chromedriver'), else raise
PathFallbackSkipped ==
    /\ pc = "path_fallback"
    /\ out' = Log(out, Msg("setup_failed"))
    /\ Crash
    /\ UNCHANGED <<flags, setup_vars, driver, ackClicked,
                   extract_vars, download_vars, reporter_vars>>
PathFallback ==
    /\ pc = "path_fallback"
    /\ \E found \in BOOLEAN :
        /\ consulted' = Append(consulted, Tried("path", found))
        /\ IF found
           THEN /\ out' = Log(Log(out, Msg("setup_failed")), Msg("found_in_path"))
                /\ service' = "path"
                /\ pc' = "launch"
                /\ UNCHANGED <<exitStatus, traceback>>
           ELSE /\ out' = Log(out, Msg("setup_failed"))
                /\ service' = service
                /\ Crash
    /\ UNCHANGED <<flags, driver, ackClicked,
                   extract_vars, download_vars, reporter_vars>>

(***************************************************************************)
(* get_latest_ota_zip: launch, navigation, consent button                  *)
(***************************************************************************)
LaunchChrome ==
    /\ pc = "launch"
    /\ \E ok \in BOOLEAN :
        IF ok
        THEN /\ driver' = DriverLaunch(driver)
             /\ out' = out
             /\ pc' = "navigate"
             /\ UNCHANGED <<exitStatus, traceback>>
        ELSE /\ driver' = driver
             /\ out' = QuietLog(out, Msg("launch_failed"))
             /\ Exit1
    /\ UNCHANGED <<flags, setup_vars, ackClicked, extract_vars, download_vars,
                   reporter_vars>>

\* the try block around driver.get(GOOGLE_OTA_URL)
Navigate ==
    /\ pc = "navigate"
    /\ \E outcome \in {"ok", "suspect", "raise"} :
        LET launched == Log(out, Msg("chrome_launched"))
            complete == Log(Log(launched, Msg("navigation_complete")),
                            Msg("page_title"))
        IN CASE outcome = "ok" ->
                  /\ out' = complete
                  /\ driver' = DriverUse(driver)
                  /\ pc' = "ack"
                  /\ UNCHANGED <<exitStatus, traceback>>
             [] outcome = "suspect" ->
                  /\ out' = QuietLog(complete, Msg("navigation_suspect"))
                  /\ driver' = DriverUse(driver)
                  /\ pc' = "ack"
                  /\ UNCHANGED <<exitStatus, traceback>>
             [] outcome = "raise" ->
                  /\ out' = QuietLog(launched, Msg("navigation_error"))
                  /\ driver' = DriverQuit(DriverUse(driver))
                  /\ Exit1
    /\ UNCHANGED <<flags, setup_vars, ackClicked, extract_vars, download_vars,
                   reporter_vars>>

\* _handle_acknowledgment_button
HandleAcknowledgmentButton ==
    /\ pc = "ack"
    /\ driver' = DriverUse(driver)
    /\ \E found \in BOOLEAN :
        LET checking == QuietLog(out, Msg("checking_ack"))
        IN IF found
           THEN /\ out' = QuietLog(checking, Msg("ack_found"))
                /\ ackClicked' = TRUE
           ELSE /\ out' = QuietLog(checking, Msg("no_ack"))
                /\ ackClicked' = FALSE
    /\ pc' = "find_anchor"
    /\ UNCHANGED <<flags, exitStatus, traceback, setup_vars, extract_vars,
                   download_vars, reporter_vars>>

(***************************************************************************)
(* _extract_latest_ota_url                                                 *)
(***************************************************************************)
\* a recognised fatal branch inside the extraction: driver.quit(); sys.exit(1)
QuitAndExit ==
    /\ driver' = DriverQuit(DriverUse(driver))
    /\ Exit1

\* WebDriverWait(driver, 20).until(presence_of_element_located(h2[@id=device]))
FindAnchor ==
    /\ pc = "find_anchor"
    /\ \E found \in BOOLEAN :
        LET locating == QuietLog(out, Msg("locating_table"))
        IN IF found
           THEN /\ anchor' = "found"
                /\ out' = QuietLog(locating, Msg("anchor_found"))
                /\ driver' = DriverUse(driver)
                /\ pc' = "find_table"
                /\ UNCHANGED <<exitStatus, traceback>>
           ELSE /\ anchor' = "absent"
                /\ out' = DebugPrint(locating, Msg("anchor_missing"))
                /\ QuitAndExit
    /\ UNCHANGED <<flags, setup_vars, ackClicked, table, tbody, rows, link_elem,
                   ota_url, download_vars, reporter_vars>>

\* _find_ota_table: following-sibling::div[1]/table, else following-sibling::table[1]
FindOtaTable ==
    /\ pc = "find_table"
    /\ \E pattern \in {"div", "sibling", "absent"} :
        /\ table' = pattern
        /\ IF pattern # "absent"
           THEN /\ out' = out
                /\ driver' = DriverUse(driver)
                /\ pc' = "read_rows"
                /\ UNCHANGED <<exitStatus, traceback>>
           ELSE /\ out' = DebugPrint(out, Msg("table_missing"))
                /\ QuitAndExit
    /\ UNCHANGED <<flags, setup_vars, ackClicked, anchor, tbody, rows, link_elem,
                   ota_url, download_vars, reporter_vars>>

\* `not rows`
NoRows(rs) == rs = <<>>

\* tbody / tr lookup and the empty-table check
ReadRows ==
    /\ pc = "read_rows"
    /\ \/ /\ tbody' = "unreadable"
          /\ rows' = rows
          /\ out' = DebugPrint(out, Msg("tbody_missing"))
          /\ QuitAndExit
       \/ \E rs \in SeqsUpTo(SampleRows, MaxRows) :
            LET counted == QuietLog(out, Msg("found_rows"))
            IN /\ tbody' = "read"
               /\ rows' = rs
               /\ IF NoRows(rs)
                  THEN /\ out' = DebugPrint(counted, Msg("no_rows"))
                       /\ QuitAndExit
                  ELSE /\ out' = QuietLog(counted, Msg("latest_row_id"))
                       /\ driver' = DriverUse(driver)
                       /\ pc' = "find_link"
                       /\ UNCHANGED <<exitStatus, traceback>>
    /\ UNCHANGED <<flags, setup_vars, ackClicked, anchor, table, link_elem,
                   ota_url, download_vars, reporter_vars>>

\* latest_row = rows[-1]: index of the row taken as "latest"
FirstRow(rs) == 1
LatestRow(rs) == Len(rs)

\* .//a[contains(@href, ".zip")]
AnyLink(href) == TRUE
ZipLookup(href) == Contains(href, DotZip)

\* find_element: index of the first matching link of the row, 0 if none
FirstZipLink(row) ==
    IF \E i \in 1..Len(row) : ZipLookup(row[i])
    THEN CHOOSE i \in 1..Len(row) :
            ZipLookup(row[i]) /\ \A j \in 1..(i-1) : ~ZipLookup(row[j])
    ELSE 0

FindLink ==
    /\ pc = "find_link"
    /\ LET r == LatestRow(rows)
           i == FirstZipLink(rows[r])
       IN IF i # 0
          THEN /\ link_elem' = <<r, i>>
               /\ ota_url' = rows[r][i]
               /\ out' = DebugPrint(out, UrlMsg("latest_zip", rows[r][i]))
               /\ driver' = DriverUse(driver)
               /\ pc' = "return"
               /\ UNCHANGED <<exitStatus, traceback>>
          ELSE /\ UNCHANGED <<link_elem, ota_url>>
               /\ out' = DebugPrint(out, Msg("no_zip_link"))
               /\ QuitAndExit
    /\ UNCHANGED <<flags, setup_vars, ackClicked, anchor, table, tbody, rows,
                   download_vars, reporter_vars>>

\* return latest_link: the locals of _extract_latest_ota_url go out of scope
ReturnUrl ==
    /\ pc = "return"
    /\ pc' = "close"
    /\ anchor' = "unset"
    /\ table' = "unset"
    /\ tbody' = "unset"
    /\ rows' = <<>>
    /\ link_elem' = <<0, 0>>
    /\ UNCHANGED <<flags, out, exitStatus, traceback, setup_vars, driver,
                   ackClicked, ota_url, download_vars, reporter_vars>>

(***************************************************************************)
(* get_latest_ota_zip: close the browser, then print or download           *)
(***************************************************************************)
CloseBrowser ==
    /\ pc = "close"
    /\ driver' = DriverQuit(driver)
    /\ pc' = "output"
    /\ UNCHANGED <<flags, out, exitStatus, traceback, setup_vars, ackClicked,
                   extract_vars, download_vars, reporter_vars>>

\* else: print(ota_url); return
PrintUrl ==
    /\ pc = "output"
    /\ ~download
    /\ out' = Append(out, UrlMsg("url", ota_url))
    /\ pc' = "done"
    /\ exitStatus' = 0
    /\ UNCHANGED <<flags, traceback, setup_vars, driver, ackClicked,
                   extract_vars, download_vars, reporter_vars>>

\* _download_ota_file entry: announce, local_filename = os.path.basename(ota_url)
DownloadStart ==
    /\ pc = "output"
    /\ download
    /\ downloadCalls' = downloadCalls + 1
    /\ out' = Say(out, UrlMsg("downloading", ota_url))
    /\ file' = [file EXCEPT !.name = Basename(ota_url)]
    /\ pc' = "get"
    /\ UNCHANGED <<flags, exitStatus, traceback, setup_vars, driver, ackClicked,
                   extract_vars, httpGets, body, reporter_vars>>

\* except Exception: report (unless silent) and sys.exit(1)
DownloadFailed ==
    /\ out' = Say(out, Msg("download_failed"))
    /\ Exit1

\* requests.get(ota_url, stream=True); r.raise_for_status()
HttpGet ==
    /\ pc = "get"
    /\ httpGets' = httpGets + 1
    /\ \E ok \in BOOLEAN :
        IF ok
        THEN /\ pc' = "open"
             /\ UNCHANGED <<out, exitStatus, traceback>>
        ELSE DownloadFailed
    /\ UNCHANGED <<flags, setup_vars, driver, ackClicked, extract_vars,
                   downloadCalls, file, body, reporter_vars>>

\* open(local_filename, 'wb'): creates or truncates; fails on an empty name
OpenFile ==
    /\ pc = "open"
    /\ \E ok \in BOOLEAN :
        IF ok /\ file.name # <<>>
        THEN /\ file' = [file EXCEPT !.opened = TRUE, !.content = <<>>]
             /\ pc' = "stream"
             /\ UNCHANGED <<out, exitStatus, traceback>>
        ELSE /\ file' = file
             /\ DownloadFailed
    /\ UNCHANGED <<flags, setup_vars, driver, ackClicked, extract_vars,
                   downloadCalls, httpGets, body, reporter_vars>>

\* one turn of `for chunk in r.iter_content(...)`: if chunk: f.write(chunk)
WriteChunk(content, chunk) == IF chunk # <<>> THEN content \o chunk ELSE content

RecvChunk ==
    /\ pc = "stream"
    /\ Len(body) < MaxChunks
    /\ \E chunk \in Chunks :
        /\ body' = Append(body, chunk)
        /\ file' = [file EXCEPT !.content = WriteChunk(@, chunk)]
    /\ UNCHANGED <<flags, pc, out, exitStatus, traceback, setup_vars, driver,
                   ackClicked, extract_vars, downloadCalls, httpGets,
                   reporter_vars>>

\* the transfer breaks inside the loop: the with block closes the file
StreamError ==
    /\ pc = "stream"
    /\ file' = [file EXCEPT !.closed = TRUE]
    /\ DownloadFailed
    /\ UNCHANGED <<flags, setup_vars, driver, ackClicked, extract_vars,
                   downloadCalls, httpGets, body, reporter_vars>>

\* the body is exhausted: close the file, report, return
StreamEnd ==
    /\ pc = "stream"
    /\ file' = [file EXCEPT !.closed = TRUE]
    /\ out' = Say(out, Msg("downloaded"))
    /\ pc' = "done"
    /\ exitStatus' = 0
    /\ UNCHANGED <<flags, traceback, setup_vars, driver, ackClicked,
                   extract_vars, downloadCalls, httpGets, body, reporter_vars>>

Next ==
    \/ Start
    \/ CheckSystemDriver
    \/ ProbeChromeVersion
    \/ InstallVersionedDriver
    \/ InstallDefaultDriver
    \/ PathFallback
    \/ LaunchChrome
    \/ Navigate
    \/ HandleAcknowledgmentButton
    \/ FindAnchor
    \/ FindOtaTable
    \/ ReadRows
    \/ FindLink
    \/ ReturnUrl
    \/ CloseBrowser
    \/ PrintUrl
    \/ DownloadStart
    \/ HttpGet
    \/ OpenFile
    \/ RecvChunk
    \/ StreamError
    \/ StreamEnd

Spec == Init /\ [][Next]_vars

(***************************************************************************)
(* get_devices.py                                                          *)
(***************************************************************************)
\* YAML scalars a record may hold
StrV(s) == [t |-> "str", s |-> s, n |-> 0]
IntV(n) == [t |-> "int", s |-> "", n |-> n]
NoneV == [t |-> "none", s |-> "", n |-> 0]

\* str(v), as print applies it to a field value
PyStr(v) ==
    CASE v.t = "str" -> v.s
      [] v.t = "int" -> ToString(v.n)
      [] v.t = "none" -> "None"

SampleRecords == { [codename |-> StrV("cheetah"), name |-> StrV("Pixel 7 Pro")],
                   [codename |-> StrV("panther")],
                   [codename |-> StrV("bluejay"), api |-> IntV(33)],
                   [name |-> NoneV] }

\* --field values: absent, or given with one of these names
FieldNames == { "codename", "name", "api", "" }
FieldArgs == { [given |-> FALSE, name |-> ""] }
             \cup { [given |-> TRUE, name |-> f] : f \in FieldNames }

\* `if args.field:` -- None and the empty string are both falsy
Truthy(f) == f.given /\ f.name # ""

\* d.get(args.field, '')
GetOrNone(d, f) == IF f \in DOMAIN d THEN d[f] ELSE NoneV
Get(d, f) == IF f \in DOMAIN d THEN d[f] ELSE StrV("")

\* an output line: the text of a field value, or the repr of a whole record
TextLine(s) == [repr |-> FALSE, s |-> s, of |-> <<>>]
ReprLine(d) == [repr |-> TRUE, s |-> "", of |-> d]

InitReporter ==
    /\ debug = FALSE
    /\ silent = FALSE
    /\ no_download = FALSE
    /\ chrome_binary_path = FALSE
    /\ ScraperIdle
    /\ field \in FieldArgs
    /\ devices \in SeqsUpTo(SampleRecords, MaxDevices)
    /\ rpc = "loop"
    /\ ridx = 0
    /\ rout = <<>>

\* for d in devices: print(d.get(args.field, ''))
PrintField ==
    /\ rpc = "loop"
    /\ Truthy(field)
    /\ ridx < Len(devices)
    /\ rout' = Append(rout, TextLine(PyStr(Get(devices[ridx + 1], field.name))))
    /\ ridx' = ridx + 1
    /\ UNCHANGED <<scraper_vars, field, devices, rpc>>

\* for d in devices: print(d)
PrintRecord ==
    /\ rpc = "loop"
    /\ ~Truthy(field)
    /\ ridx < Len(devices)
    /\ rout' = Append(rout, ReprLine(devices[ridx + 1]))
    /\ ridx' = ridx + 1
    /\ UNCHANGED <<scraper_vars, field, devices, rpc>>

\* the loop is exhausted: the script ends
ReporterEnd ==
    /\ rpc = "loop"
    /\ ridx = Len(devices)
    /\ rpc' = "done"
    /\ UNCHANGED <<scraper_vars, field, devices, ridx, rout>>

NextReporter ==
    \/ PrintField
    \/ PrintRecord
    \/ ReporterEnd

SpecReporter == InitReporter /\ [][NextReporter]_vars

(***************************************************************************)
(* Properties                                                              *)
(***************************************************************************)
Terminated == pc \in {"done", "exit", "crash"}
UrlLines == { i \in 1..Len(out) : out[i].kind = "url" }

\* C1: when the table body has R >= 1 rows, the URL returned is the href of a
\* link element of row R (never of a row before it); with R = 0 the process
\* exits non-zero and _download_ota_file is never called.
C1_LastRowLink ==
    /\ pc = "return" =>
          /\ Len(rows) >= 1
          /\ link_elem[1] = Len(rows)
          /\ link_elem[2] \in 1..Len(rows[Len(rows)])
          /\ ota_url = rows[Len(rows)][link_elem[2]]
    /\ (tbody = "read" /\ rows = <<>>) =>
          /\ pc = "exit"
          /\ exitStatus > 0
          /\ downloadCalls = 0

C1_Witness ==
    /\ pc = "return"
    /\ Len(rows) = 2
    /\ rows[1] = <<HrefA>>
    /\ link_elem = <<2, 2>>
    /\ ota_url = HrefB

\* the conditions under which an extraction lookup has failed, read off the
\* page content met (the last alternative once the link lookup has run)
ExtractionFailed ==
    \/ anchor = "absent"
    \/ table = "absent"
    \/ tbody = "unreadable"
    \/ tbody = "read" /\ rows = <<>>
    \/ /\ tbody = "read" /\ rows # <<>> /\ pc # "find_link"
       /\ \A i \in 1..Len(rows[Len(rows)]) :
             ~Contains(rows[Len(rows)][i], DotZip)

\* C2: whenever an extraction lookup fails (anchor absent, no table pattern,
\* unreadable tbody/rows, no rows, no .zip link in the last row) the process
\* has exited with non-zero status, no file was opened or written, no GET was
\* issued and no URL was printed, whatever the download flag.
C2_ExtractionFailureIsFatal ==
    ExtractionFailed =>
        /\ pc = "exit"
        /\ exitStatus > 0
        /\ ~file.opened /\ file.content = <<>>
        /\ downloadCalls = 0 /\ httpGets = 0
        /\ \A i \in 1..Len(out) : out[i].text = <<>>

C2_Witness ==
    /\ anchor = "absent"
    /\ pc = "exit"
    /\ download
    /\ debug /\ ~silent

FinalPathSegment(u) == Basename(SubSeq(u, 1, FirstIndexIn(u, {"?", "#"}) - 1))

\* C4: after a download that completed without error the local file is named
\* after the final path segment of the URL and holds the chunks of the body
\* concatenated in arrival order.
C4_FileNamedAfterPathSegment ==
    (pc = "done" /\ download) =>
        /\ file.opened /\ file.closed
        /\ file.name = FinalPathSegment(ota_url)
        /\ file.content = Flatten(body)

\* C5: once a session exists, driver.quit() is called exactly once before the
\* process ends on the happy path and on every recognised fatal branch, it is
\* called before the download or the URL print begins, it is never called
\* twice and the driver is never used after it.
C5_QuitExactlyOnce ==
    /\ driver.quits <= 1
    /\ ~driver.misuse
    /\ (Terminated /\ driver.launches > 0) => driver.quits = 1
    /\ (downloadCalls > 0 \/ UrlLines # {}) => driver.quits = 1
    /\ pc \in {"output", "get", "open", "stream", "done"} => driver.state = "quit"

C5_Witness ==
    /\ pc = "exit"
    /\ table = "absent"
    /\ driver.launches = 1
    /\ driver.quits = 1

\* C6: every failure mode ends with non-zero status, and unless --silent is
\* set a failure message has been printed, with debug on and with debug off.
C6_FailureMessageUnlessSilent ==
    pc \in {"exit", "crash"} =>
        /\ exitStatus > 0
        /\ ~silent =>
              \/ traceback
              \/ \E i \in 1..Len(out) : out[i].kind \in FailureKinds

\* C7: the URL returned is the target of the first link of the last row whose
\* href ends in ".zip"; a last row with no such link is fatal.
C7_LinkEndsInZip ==
    /\ pc = "return" =>
          /\ EndsWith(ota_url, DotZip)
          /\ \A j \in 1..(link_elem[2] - 1) :
                ~EndsWith(rows[Len(rows)][j], DotZip)
    /\ ( /\ tbody = "read" /\ rows # <<>> /\ pc # "find_link"
         /\ \A i \in 1..Len(rows[Len(rows)]) :
               ~EndsWith(rows[Len(rows)][i], DotZip) )
       => pc = "exit"

InSetup == pc \in {"start", "setup", "probe", "wdm_versioned", "wdm_default",
                   "path_fallback"}
SourceOrder == <<"system", "wdm", "path">>

\* C8: the driver sources are tried in the order system binary, resolved
\* driver, search path; a source is tried only when every earlier one yielded
\* nothing; the search path is tried whenever the first two yielded nothing;
\* the driver used is the one of the first source that yielded; when none
\* yields the run fails and no browser is launched.
C8_DriverSourceOrder ==
    /\ Len(consulted) <= 3
    /\ \A i \in 1..Len(consulted) :
          /\ consulted[i].source = SourceOrder[i]
          /\ i < Len(consulted) => ~consulted[i].yielded
    /\ service # "none" =>
          /\ consulted[Len(consulted)].yielded
          /\ consulted[Len(consulted)].source = service
    /\ (~InSetup /\ pc # "crash") => service # "none"
    /\ (Len(consulted) = 2 /\ ~consulted[2].yielded) => pc = "path_fallback"
    /\ pc = "crash" =>
          /\ Len(consulted) = 3
          /\ \A i \in 1..3 : ~consulted[i].yielded
          /\ service = "none"
          /\ driver.launches = 0
          /\ exitStatus > 0
    /\ driver.launches > 0 => service # "none"

C8_Witness ==
    /\ pc = "launch"
    /\ service = "path"
    /\ Len(consulted) = 3

\* C9 as stated: with --silent the script prints the URL and nothing else on
\* success, and nothing on failure, whatever the debug and download flags.
C9_SilentPrintsUrlOnSuccess ==
    silent =>
        /\ pc = "done" => out = <<UrlMsg("url", ota_url)>>
        /\ pc # "done" => out = <<>>

\* C9 amended: with --silent the script's print calls write the URL line alone
\* on success with --no-download, and nothing at all in every other case
\* (success with download enabled, every failure branch, any debug value).
C9_SilentPrintsOnlyUrl ==
    silent =>
        out = IF pc = "done" /\ no_download
              THEN <<UrlMsg("url", ota_url)>>
              ELSE <<>>

C9_Witness ==
    /\ silent /\ debug
    /\ pc = "done"
    /\ no_download
    /\ out = <<UrlMsg("url", ota_url)>>

\* C10: for N records the reporter prints exactly N lines in record order:
\* the record itself when no field is given, else the field's value, or the
\* empty string when the record lacks the field.
C10_OneLinePerRecord ==
    /\ Len(rout) = ridx
    /\ rpc = "done" => Len(rout) = Len(devices)
    /\ \A i \in 1..Len(rout) :
          /\ ~field.given => rout[i] = ReprLine(devices[i])
          /\ (field.given /\ field.name # "") =>
                rout[i] = TextLine(IF field.name \in DOMAIN devices[i]
                                   THEN PyStr(devices[i][field.name])
                                   ELSE "")

C10_Witness ==
    /\ rpc = "done"
    /\ Len(devices) = 2
    /\ field.given /\ field.name = "name"
    /\ "name" \notin DOMAIN devices[1]
    /\ "name" \in DOMAIN devices[2]
    /\ Len(rout) = 2

====
